---- MODULE Spec2Model ----
(***************************************************************************)
(* A model of dependency_scanner.py: the import scanner, the package       *)
(* classifier, the directory walk, the manifest writer and the provisioning*)
(* steps of main().                                                        *)
(*                                                                         *)
(* Python strings are sequences of code points, so that split, endswith,   *)
(* strip, lower, sorted and splitlines are computed character by character.*)
(***************************************************************************)
EXTENDS Integers, Sequences, FiniteSets, TLC

\* ---------------------------------------------------------------- bounds
\* Most files a scanned tree holds before the program adds its own.
MaxFiles == 3
\* Most runs of main() over the same directory.
MaxRuns == 2

\* --------------------------------------------------------- code points
Dot == 46
Sep == 47

\* Python's None, for values that are otherwise strings.
None == <<-1>>
\* The value of a list of strings that has not been made yet.
NotShown == <<None>>

\* ------------------------------------------------------ string literals
s_os == <<111, 115>>   \* 'os'
s_numpy == <<110, 117, 109, 112, 121>>   \* 'numpy'
s_cv2 == <<99, 118, 50>>   \* 'cv2'
s_torch == <<116, 111, 114, 99, 104>>   \* 'torch'
s_pandas == <<112, 97, 110, 100, 97, 115>>   \* 'pandas'
s_scipy == <<115, 99, 105, 112, 121>>   \* 'scipy'
s_requests == <<114, 101, 113, 117, 101, 115, 116, 115>>   \* 'requests'
s_yaml == <<121, 97, 109, 108>>   \* 'yaml'
s_mylocal == <<109, 121, 108, 111, 99, 97, 108>>   \* 'mylocal'
s_PyYAML == <<80, 121, 89, 65, 77, 76>>   \* 'PyYAML'
s_opencv_python == <<111, 112, 101, 110, 99, 118, 45, 112, 121, 116, 104, 111, 110>>   \* 'opencv-python'
s_os_sys == <<111, 115, 45, 115, 121, 115>>   \* 'os-sys'
s_numpy_linalg == <<110, 117, 109, 112, 121, 46, 108, 105, 110, 97, 108, 103>>   \* 'numpy.linalg'
s_yaml_parser == <<121, 97, 109, 108, 46, 112, 97, 114, 115, 101, 114>>   \* 'yaml.parser'
s_torch_nn == <<116, 111, 114, 99, 104, 46, 110, 110>>   \* 'torch.nn'
s_mylocal_utils == <<109, 121, 108, 111, 99, 97, 108, 46, 117, 116, 105, 108, 115>>   \* 'mylocal.utils'
s_dot_venv == <<46, 118, 101, 110, 118>>   \* '.venv'
s_venv == <<118, 101, 110, 118>>   \* 'venv'
s_myenv == <<109, 121, 101, 110, 118>>   \* 'myenv'
s_dot_py == <<46, 112, 121>>   \* '.py'
s_a_py == <<97, 46, 112, 121>>   \* 'a.py'
s_b_py == <<98, 46, 112, 121>>   \* 'b.py'
s_c_py == <<99, 46, 112, 121>>   \* 'c.py'
s_bad_py == <<98, 97, 100, 46, 112, 121>>   \* 'bad.py'
s_u_py == <<117, 46, 112, 121>>   \* 'u.py'
s_x_py == <<120, 46, 112, 121>>   \* 'x.py'
s_pip_py == <<112, 105, 112, 46, 112, 121>>   \* 'pip.py'
s_site_py == <<115, 105, 116, 101, 46, 112, 121>>   \* 'site.py'
s_notes_txt == <<110, 111, 116, 101, 115, 46, 116, 120, 116>>   \* 'notes.txt'
s_mod_py == <<109, 111, 100, 46, 112, 121>>   \* 'mod.py'
s_pkg == <<112, 107, 103>>   \* 'pkg'
s_lib == <<108, 105, 98>>   \* 'lib'
s_cwd == <<47, 119>>   \* '/w'
s_nope == <<47, 110, 111, 112, 101>>   \* '/nope'
s_cwd_padded == <<32, 47, 119, 32>>   \* ' /w '
s_blank == <<32, 32>>   \* '  '
s_yes == <<121, 101, 115>>   \* 'yes'
s_YES == <<89, 69, 83>>   \* 'YES'
s_y == <<121>>   \* 'y'
s_no == <<110, 111>>   \* 'no'
s_old_content == <<102, 108, 97, 115, 107, 10>>   \* 'flask\n'
s_utf8 == <<117, 116, 102, 45, 56>>   \* 'utf-8'
s_latin1 == <<73, 83, 79, 45, 56, 56, 53, 57, 45, 49>>   \* 'ISO-8859-1'
s_newline == <<10>>   \* '\n'

\* ------------------------------------------- is_external_package's sets
stdlib_modules ==
    { <<111, 115>>,   \* os
      <<115, 121, 115>>,   \* sys
      <<100, 97, 116, 101, 116, 105, 109, 101>>,   \* datetime
      <<109, 97, 116, 104>>,   \* math
      <<114, 97, 110, 100, 111, 109>>,   \* random
      <<116, 105, 109, 101>>,   \* time
      <<106, 115, 111, 110>>,   \* json
      <<99, 115, 118>>,   \* csv
      <<114, 101>>,   \* re
      <<99, 111, 108, 108, 101, 99, 116, 105, 111, 110, 115>>,   \* collections
      <<105, 116, 101, 114, 116, 111, 111, 108, 115>>,   \* itertools
      <<102, 117, 110, 99, 116, 111, 111, 108, 115>>,   \* functools
      <<116, 121, 112, 105, 110, 103>>,   \* typing
      <<112, 97, 116, 104, 108, 105, 98>>,   \* pathlib
      <<108, 111, 103, 103, 105, 110, 103>>,   \* logging
      <<97, 114, 103, 112, 97, 114, 115, 101>>,   \* argparse
      <<117, 110, 105, 116, 116, 101, 115, 116>>,   \* unittest
      <<119, 97, 114, 110, 105, 110, 103, 115>> }   \* warnings
common_external ==
    { <<99, 118, 50>>,   \* cv2
      <<109, 101, 100, 105, 97, 112, 105, 112, 101>>,   \* mediapipe
      <<116, 101, 110, 115, 111, 114, 102, 108, 111, 119>>,   \* tensorflow
      <<116, 111, 114, 99, 104>>,   \* torch
      <<112, 97, 110, 100, 97, 115>>,   \* pandas
      <<110, 117, 109, 112, 121>>,   \* numpy
      <<115, 99, 105, 112, 121>>,   \* scipy
      <<109, 97, 116, 112, 108, 111, 116, 108, 105, 98>>,   \* matplotlib
      <<115, 101, 97, 98, 111, 114, 110>>,   \* seaborn
      <<115, 107, 108, 101, 97, 114, 110>>,   \* sklearn
      <<80, 73, 76>> }   \* PIL

\* ------------------------------------------------------ string methods
MinOf(S) == CHOOSE i \in S : \A j \in S : i <= j
MaxOf(S) == CHOOSE i \in S : \A j \in S : j <= i

\* str.split(sep) for a one-character separator.
RECURSIVE split(_, _)
split(s, sep) ==
    LET idx == {i \in 1..Len(s) : s[i] = sep}
    IN  IF idx = {} THEN <<s>>
        ELSE <<SubSeq(s, 1, MinOf(idx) - 1)>>
             \o split(SubSeq(s, MinOf(idx) + 1, Len(s)), sep)

\* name.split('.')[0]
FirstSegment(name) == split(name, Dot)[1]

\* str.endswith(suffix)
endswith(s, suffix) ==
    /\ Len(s) >= Len(suffix)
    /\ SubSeq(s, Len(s) - Len(suffix) + 1, Len(s)) = suffix

\* str.lower() on ASCII letters.
lower(s) ==
    [i \in 1..Len(s) |->
        IF s[i] \in 65..90 THEN s[i] + 32 ELSE s[i]]

\* The characters str.strip() removes: space, \t \n \v \f \r, FS GS RS US.
Whitespace == {32, 9, 10, 11, 12, 13, 28, 29, 30, 31}

\* str.strip()
strip(s) ==
    LET keep == {i \in 1..Len(s) : s[i] \notin Whitespace}
    IN  IF keep = {} THEN <<>> ELSE SubSeq(s, MinOf(keep), MaxOf(keep))

\* The line boundaries of str.splitlines(); \r\n counts as one boundary.
LineBreaks == {10, 13, 11, 12, 28, 29, 30, 133, 8232, 8233}

\* str.splitlines()
RECURSIVE splitlines(_)
splitlines(s) ==
    LET idx == {i \in 1..Len(s) : s[i] \in LineBreaks}
    IN  IF s = <<>> THEN <<>>
        ELSE IF idx = {} THEN <<s>>
        ELSE LET i == MinOf(idx)
                 skip == IF s[i] = 13 /\ i < Len(s) /\ s[i + 1] = 10
                         THEN 2 ELSE 1
             IN  <<SubSeq(s, 1, i - 1)>>
                 \o splitlines(SubSeq(s, i + skip, Len(s)))

\* a < b for Python strings: by code point, a proper prefix first.
StrLess(a, b) ==
    LET n == IF Len(a) < Len(b) THEN Len(a) ELSE Len(b)
        diff == {i \in 1..n : a[i] # b[i]}
    IN  IF diff = {} THEN Len(a) < Len(b)
        ELSE a[MinOf(diff)] < b[MinOf(diff)]

\* sorted(S) for a set of strings.
RECURSIVE sorted(_)
sorted(S) ==
    IF S = {} THEN <<>>
    ELSE LET m == CHOOSE x \in S : \A y \in S \ {x} : StrLess(x, y)
         IN  <<m>> \o sorted(S \ {m})

\* ------------------------------------------------------------- os.path
\* os.path.join(a, b) on POSIX.
os_path_join(a, b) ==
    IF b # <<>> /\ b[1] = Sep THEN b
    ELSE IF a = <<>> \/ a[Len(a)] = Sep THEN a \o b
    ELSE a \o <<Sep>> \o b

\* os.getcwd()
getcwd == s_cwd

\* os.path.abspath(p) for the normalized paths of the model.
abspath(p) == IF p # <<>> /\ p[1] = Sep THEN p ELSE os_path_join(getcwd, p)

\* os.path.basename(p)
basename(p) == split(p, Sep)[Len(split(p, Sep))]

\* The root os.walk reports for the directory `comps` below `top`.
RECURSIVE RootPath(_, _)
RootPath(top, comps) ==
    IF comps = <<>> THEN top
    ELSE RootPath(os_path_join(top, Head(comps)), Tail(comps))

\* ------------------------------------------------------------------ state
VARIABLES
    pc,               \* where main() stands
    run,              \* which run of main() over the directory this is
    PACKAGE_MAPPING,  \* the module-level mapping loaded from package_mapping.json
    installed,        \* the distributions importlib.metadata finds
    files,            \* the files of the directory tree
    manifest,         \* the content of requirements.txt, None when absent
    project_dir,      \* main's project_dir, None until chosen
    rejected,         \* <<[via, path]>> for the last path found invalid, else <<>>
    visited,          \* the directories os.walk has reported
    cur_files,        \* the files of the reported directory still to handle
    all_imports,      \* scan_directory's accumulator
    scanned,          \* the files scan_imports has been called on
    last_file,        \* <<f>> for the file scanned last, <<>> before
    file_imports,     \* what scan_imports returned for it
    file_raised,      \* whether a node of it raised inside scan_imports
    classified,       \* the classifier's decisions logged for it
    writes,           \* how often this run wrote the manifest
    manifest0,        \* the manifest's content when this run started
    scans,            \* the tree walked and the manifest written, per written scan
    venv_name,        \* create_or_use_venv's result, None before
    venv_reused,      \* whether that environment directory existed already
    cmds,             \* the subprocess commands run, in order
    shown,            \* the module list printed before the prompt
    answer,           \* the raw answer to the prompt, None before
    upgrade_outcome,  \* how the pip upgrade invocation ended
    log,              \* the kinds of messages printed
    exit_code         \* the process's exit status, -1 while running

vars == <<pc, run, PACKAGE_MAPPING, installed, files, manifest, project_dir,
          rejected, visited, cur_files, all_imports,
          scanned, last_file, file_imports, file_raised, classified, writes,
          manifest0, scans, venv_name, venv_reused, cmds, shown, answer,
          upgrade_outcome, log, exit_code>>

Range(s) == {s[i] : i \in DOMAIN s}

\* ------------------------------------------------------- package mapping
EmptyMapping == [m \in {} |-> <<>>]

\* package_mapping.json: whether it exists, and the object it holds.
MappingFile(exists, content) == [exists |-> exists, content |-> content]

\* The package_mapping.json files a run may find.
MappingFiles ==
    { MappingFile(FALSE, EmptyMapping),
      MappingFile(TRUE, (s_cv2 :> s_opencv_python) @@ (s_yaml :> s_PyYAML)),
      MappingFile(TRUE, (s_os :> s_os_sys) @@ (s_mylocal :> s_PyYAML)
                        @@ (s_numpy :> s_numpy)) }

load_package_mapping(file) ==
    IF file.exists THEN file.content ELSE EmptyMapping

\* The registries of installed distributions the scan may run against.
InstalledChoices == { {}, {s_requests, s_numpy, s_yaml} }

\* Whether importlib.metadata.distribution(name) finds a distribution.
distribution_found(name) == name \in installed

\* ------------------------------------------------------------ classifier
is_external_package(module_name) ==
    IF module_name \in stdlib_modules THEN FALSE
    ELSE IF module_name \in DOMAIN PACKAGE_MAPPING
         THEN IF distribution_found(PACKAGE_MAPPING[module_name])
              THEN TRUE
              ELSE TRUE
    ELSE IF distribution_found(module_name) THEN TRUE
    ELSE IF module_name \in common_external THEN TRUE
    ELSE FALSE

\* get_package_name without the lookup in the mapping.
get_package_name_raw(module_name) == module_name

get_package_name(module_name) ==
    IF module_name \in DOMAIN PACKAGE_MAPPING
    THEN PACKAGE_MAPPING[module_name]
    ELSE module_name

\* The decision scan_imports takes for one module name: whether it is added
\* and, if so, under which name.
classify(module_name) ==
    [module   |-> module_name,
     external |-> is_external_package(module_name),
     name     |-> IF is_external_package(module_name)
                  THEN get_package_name(module_name)
                  ELSE None]

\* ------------------------------------------------------------ ast nodes
Import(names) ==
    [type |-> "Import", names |-> names, level |-> 0, module |-> None]
ImportFrom(module, level) ==
    [type |-> "ImportFrom", names |-> <<>>, level |-> level, module |-> module]
OtherNode ==
    [type |-> "Expr", names |-> <<>>, level |-> 0, module |-> None]

\* The test of the level left out: every from-import counts as absolute.
absolute_import_any(node) == TRUE

\* node.level == 0
absolute_import(node) == node.level = 0

\* The module names one node makes scan_imports look at.
node_modules(node) ==
    IF node.type = "Import"
    THEN {FirstSegment(node.names[i]) : i \in DOMAIN node.names}
    ELSE IF node.type = "ImportFrom" /\ absolute_import(node)
              /\ node.module # None
    THEN {FirstSegment(node.module)}
    ELSE {}

\* Whether handling the node raises (None has no split); the handler's
\* except clause catches it and the loop goes on.
node_raises(node) ==
    /\ node.type = "ImportFrom"
    /\ absolute_import(node)
    /\ node.module = None

\* What one node adds to scan_imports' set.
node_imports(node) ==
    {classify(m).name : m \in {x \in node_modules(node) : classify(x).external}}

\* ------------------------------------------------------------ scan_imports
\* The encoding the file is decoded with: chardet's, or utf-8 when chardet
\* detects none.
encoding_of(f) == IF f.detected = None THEN s_utf8 ELSE f.detected

\* Whether both try blocks of scan_imports pass: the bytes are read, they
\* decode under the chosen encoding and ast.parse accepts the text.
parsed(f) ==
    /\ f.readable
    /\ encoding_of(f) \in f.decodable
    /\ f.parses

\* The set the loop over ast.walk(tree) builds.
imports_of_nodes(nodes) ==
    UNION {node_imports(nodes[i]) : i \in DOMAIN nodes}

\* scan_imports without its two early returns.
scan_imports_lenient(f) == imports_of_nodes(f.nodes)

scan_imports(f) ==
    IF ~f.readable THEN {}
    ELSE IF ~(encoding_of(f) \in f.decodable /\ f.parses) THEN {}
    ELSE imports_of_nodes(f.nodes)

\* Whether some node of the file raised inside the per-node try block.
scan_raised(f) ==
    parsed(f) /\ \E i \in DOMAIN f.nodes : node_raises(f.nodes[i])

\* The decisions printed while the file is scanned.
scan_classified(f) ==
    IF parsed(f)
    THEN {classify(m) : m \in UNION {node_modules(f.nodes[i]) : i \in DOMAIN f.nodes}}
    ELSE {}

\* ---------------------------------------------------------- directory tree
File(dir, name, readable, detected, decodable, parses, nodes) ==
    [dir |-> dir, name |-> name, readable |-> readable, detected |-> detected,
     decodable |-> decodable, parses |-> parses, nodes |-> nodes]

\* The files a scanned tree is drawn from.
Catalogue ==
    { \* a.py: "import numpy", undetected encoding, valid utf-8
      File(<<>>, s_a_py, TRUE, None, {s_utf8}, TRUE,
           <<Import(<<s_numpy>>)>>),
      \* b.py: "from . import a", "import os", "from ..torch.nn import f",
      \*       "from .numpy import g"
      File(<<>>, s_b_py, TRUE, s_utf8, {s_utf8, s_latin1}, TRUE,
           <<ImportFrom(None, 1), Import(<<s_os>>), ImportFrom(s_torch_nn, 2),
             ImportFrom(s_numpy, 1)>>),
      \* pkg/c.py: "import numpy.linalg, cv2", "from yaml.parser import P",
      \*           "from mylocal.utils import h", an expression
      File(<<s_pkg>>, s_c_py, TRUE, s_utf8, {s_utf8, s_latin1}, TRUE,
           <<Import(<<s_numpy_linalg, s_cv2>>), ImportFrom(s_yaml_parser, 0),
             ImportFrom(s_mylocal_utils, 0), OtherNode>>),
      \* bad.py: invalid syntax around "import requests", "import pandas"
      File(<<>>, s_bad_py, TRUE, s_utf8, {s_utf8, s_latin1}, FALSE,
           <<Import(<<s_requests>>), Import(<<s_pandas>>)>>),
      \* pkg/u.py: latin-1 bytes chardet cannot place, invalid as utf-8
      File(<<s_pkg>>, s_u_py, TRUE, None, {s_latin1}, TRUE,
           <<Import(<<s_pandas>>)>>),
      \* x.py: cannot be opened
      File(<<>>, s_x_py, FALSE, s_utf8, {s_utf8}, TRUE,
           <<Import(<<s_scipy>>)>>),
      \* .venv/lib/pip.py: "import torch"
      File(<<s_dot_venv, s_lib>>, s_pip_py, TRUE, s_utf8, {s_utf8}, TRUE,
           <<Import(<<s_torch>>)>>),
      \* venv/lib/site.py: "import scipy"
      File(<<s_venv, s_lib>>, s_site_py, TRUE, s_utf8, {s_utf8}, TRUE,
           <<Import(<<s_scipy>>)>>),
      \* notes.txt: not a .py file
      File(<<>>, s_notes_txt, TRUE, s_utf8, {s_utf8}, TRUE,
           <<Import(<<s_pandas>>)>>) }

\* What "python -m venv" puts below the new environment directory.
CreatedVenvFiles(name) ==
    { File(<<name, s_lib>>, s_pip_py, TRUE, s_utf8, {s_utf8}, TRUE,
           <<Import(<<s_torch>>)>>) }

\* What "pip install -r" puts below the environment directory.
InstalledFiles(name) ==
    { File(<<name, s_lib>>, s_mod_py, TRUE, s_utf8, {s_utf8}, TRUE,
           <<Import(<<s_pandas>>)>>) }

\* The directories of the tree, relative to its top; the top is <<>>.
Dirs ==
    {<<>>} \cup UNION {{SubSeq(f.dir, 1, k) : k \in 0..Len(f.dir)} : f \in files}

Parent(d) == SubSeq(d, 1, Len(d) - 1)

\* The directories that exist and hold the tree.
ExistingTops == {s_cwd}

\* os.path.isdir(path)
isdir(path) ==
    \E top \in ExistingTops, d \in Dirs : RootPath(top, d) = path

\* ------------------------------------------------------------------ inputs
\* The values of --input-dir; None when the flag is not given.
ArgValues == {None, <<>>, s_cwd, s_nope}

\* What the user may type at the directory prompt.
PromptInputs == {<<>>, s_blank, s_cwd_padded, s_nope}

\* What the user may type at the installation prompt.
Answers == {s_yes, s_YES, s_y, s_no, <<>>}

\* How a subprocess may end: exit status 0, a non-zero exit status, or the
\* executable cannot be started.
Outcomes == {"ok", "nonzero", "nolaunch"}

\* The requirements.txt a run may find: none, or one with a line.
ManifestsBefore == {None, s_old_content}

inputVars == <<project_dir, rejected>>
walkVars  == <<visited, cur_files, all_imports, scanned, last_file,
               file_imports, file_raised, classified>>
provVars  == <<venv_name, venv_reused, cmds, shown, answer, upgrade_outcome>>
envVars   == <<PACKAGE_MAPPING, installed>>
histVars  == <<run, manifest0, scans>>

\* sys.exit(code), or the interpreter ending on an uncaught exception.
Exit(code, messages) ==
    /\ pc' = "exited"
    /\ exit_code' = code
    /\ log' = log \cup messages

\* ------------------------------------------------------------------- Init
Idle ==
    /\ project_dir = None
    /\ rejected = <<>>
    /\ visited = {}
    /\ cur_files = {}
    /\ all_imports = {}
    /\ scanned = {}
    /\ last_file = <<>>
    /\ file_imports = {}
    /\ file_raised = FALSE
    /\ classified = {}
    /\ writes = 0
    /\ venv_name = None
    /\ venv_reused = FALSE
    /\ cmds = <<>>
    /\ shown = NotShown
    /\ answer = None
    /\ upgrade_outcome = "none"
    /\ log = {}
    /\ exit_code = -1

Init ==
    /\ pc = "start"
    /\ run = 1
    /\ \E file \in MappingFiles : PACKAGE_MAPPING = load_package_mapping(file)
    /\ installed \in InstalledChoices
    /\ files \in {S \in SUBSET Catalogue : Cardinality(S) <= MaxFiles}
    /\ manifest \in ManifestsBefore
    /\ manifest0 = manifest
    /\ scans = <<>>
    /\ Idle

\* ------------------------------------------------------------------- main
\* The flag's directory taken without the test.
flag_dir_ok_always(dir) == TRUE

\* os.path.isdir(project_dir) in main
flag_dir_ok(dir) == isdir(dir)

\* main, from parse_arguments to the choice of project_dir by the flag.
ParseArgs(input_dir) ==
    /\ pc = "start"
    /\ IF input_dir # None /\ input_dir # <<>>
       THEN /\ project_dir' = abspath(input_dir)
            /\ IF ~flag_dir_ok(abspath(input_dir))
               THEN /\ Exit(1, {"error_invalid_dir"})
                    /\ rejected' = <<[via |-> "flag", path |-> input_dir]>>
               ELSE /\ pc' = "walk"
                    /\ UNCHANGED <<exit_code, log, rejected>>
       ELSE /\ pc' = "prompt"
            /\ UNCHANGED <<inputVars, exit_code, log>>
    /\ UNCHANGED <<envVars, histVars, walkVars, provVars, files, manifest,
                   writes>>

\* One pass of get_directory_input's loop.
get_directory_input(typed) ==
    /\ pc = "prompt"
    /\ IF strip(typed) = <<>>
       THEN /\ project_dir' = getcwd
            /\ pc' = "walk"
            /\ UNCHANGED <<log, rejected>>
       ELSE IF isdir(strip(typed))
       THEN /\ project_dir' = abspath(strip(typed))
            /\ pc' = "walk"
            /\ UNCHANGED <<log, rejected>>
       ELSE /\ project_dir' = project_dir
            /\ pc' = "prompt"
            /\ log' = log \cup {"error_invalid_dir"}
            /\ rejected' = <<[via |-> "prompt", path |-> typed]>>
    /\ UNCHANGED <<envVars, histVars, walkVars, provVars, files, manifest,
                   writes, exit_code>>

\* ---------------------------------------------------------- scan_directory
\* '.venv' in root.split(os.path.sep)
skip_root(root) == s_dot_venv \in Range(split(root, Sep))

\* An assignment in place of the update.
update_replace(imports, found) == found

\* all_imports.update(file_imports)
update(imports, found) == imports \cup found

\* os.walk reports a directory: it is skipped, or its files are next.
WalkRoot(d) ==
    /\ pc = "walk"
    /\ cur_files = {}
    /\ d \in Dirs \ visited
    /\ d = <<>> \/ Parent(d) \in visited
    /\ visited' = visited \cup {d}
    /\ cur_files' = IF skip_root(RootPath(project_dir, d))
                    THEN {}
                    ELSE {f \in files : f.dir = d}
    /\ UNCHANGED <<pc, envVars, histVars, inputVars, provVars, files,
                   manifest, writes, log, exit_code, all_imports, scanned,
                   last_file, file_imports, file_raised, classified>>

\* One file of the reported directory.
WalkFile(f) ==
    /\ pc = "walk"
    /\ f \in cur_files
    /\ cur_files' = cur_files \ {f}
    /\ IF endswith(f.name, s_dot_py)
       THEN /\ scanned' = scanned \cup {f}
            /\ last_file' = <<f>>
            /\ file_imports' = scan_imports(f)
            /\ file_raised' = scan_raised(f)
            /\ classified' = scan_classified(f)
            /\ all_imports' = update(all_imports, scan_imports(f))
       ELSE UNCHANGED <<scanned, last_file, file_imports, file_raised,
                        classified, all_imports>>
    /\ UNCHANGED <<pc, envVars, histVars, inputVars, provVars, files,
                   manifest, writes, log, exit_code, visited>>

\* ------------------------------------------------- create_requirements_file
\* What the loop of f.write(f"{imp}\n") puts into the file.
RECURSIVE write_lines(_)
write_lines(lines) ==
    IF lines = <<>> THEN <<>>
    ELSE Head(lines) \o s_newline \o write_lines(Tail(lines))

\* The file opened with 'a' in place of 'w'.
create_requirements_file_append(imports, before) ==
    (IF before = None THEN <<>> ELSE before) \o write_lines(sorted(imports))

\* The content of the file after open(filepath, 'w'), which truncates what
\* was there, and one write per element of sorted(imports).
create_requirements_file(imports, before) == write_lines(sorted(imports))

\* The early exit left out.
no_imports_never(imports) == FALSE

\* not imports
no_imports(imports) == imports = {}

\* main, from the return of scan_directory to the written manifest.
MainAfterScan ==
    /\ pc = "walk"
    /\ visited = Dirs
    /\ cur_files = {}
    /\ IF no_imports(all_imports)
       THEN /\ Exit(0, {"no_imports"})
            /\ UNCHANGED <<manifest, writes, scans>>
       ELSE /\ manifest' = create_requirements_file(all_imports, manifest)
            /\ writes' = writes + 1
            /\ scans' = Append(scans, [files |-> files, manifest |-> manifest'])
            /\ pc' = "venv"
            /\ UNCHANGED <<exit_code, log>>
    /\ visited' = {}
    /\ last_file' = <<>>
    /\ file_imports' = {}
    /\ file_raised' = FALSE
    /\ classified' = {}
    /\ UNCHANGED <<envVars, run, manifest0, inputVars, provVars, files,
                   cur_files, all_imports, scanned>>

\* ------------------------------------------------------------ provisioning
venv_names == <<s_dot_venv, s_venv, s_myenv>>

\* The path of the first conventional directory that exists, else None.
find_existing_venv(directory) ==
    LET hits == {i \in DOMAIN venv_names :
                    isdir(os_path_join(directory, venv_names[i]))}
    IN  IF hits = {} THEN None
        ELSE os_path_join(directory, venv_names[MinOf(hits)])

\* create_or_use_venv: reuse the directory found, or run "python -m venv",
\* whose non-zero exit status raises out of main.
create_or_use_venv(outcome) ==
    /\ pc = "venv"
    /\ outcome \in {"ok", "nonzero"}
    /\ IF find_existing_venv(project_dir) # None
       THEN /\ outcome = "ok"
            /\ venv_name' = basename(find_existing_venv(project_dir))
            /\ venv_reused' = TRUE
            /\ pc' = "upgrade"
            /\ UNCHANGED <<cmds, files, exit_code, log>>
       ELSE /\ cmds' = Append(cmds, "venv_create")
            /\ venv_reused' = FALSE
            /\ IF outcome = "ok"
               THEN /\ venv_name' = s_dot_venv
                    /\ files' = files \cup CreatedVenvFiles(s_dot_venv)
                    /\ pc' = "upgrade"
                    /\ UNCHANGED <<exit_code, log>>
               ELSE /\ Exit(1, {"traceback"})
                    /\ UNCHANGED <<venv_name, files>>
    /\ UNCHANGED <<envVars, histVars, inputVars, walkVars, manifest, writes,
                   shown, answer, upgrade_outcome>>

\* How the environment's executables may end: one that "python -m venv"
\* has just created starts; what a directory found by name holds is unknown.
Launches == IF venv_reused THEN Outcomes ELSE {"ok", "nonzero"}

\* upgrade_pip: CalledProcessError is caught, any other exception is not.
upgrade_pip(outcome) ==
    /\ pc = "upgrade"
    /\ outcome \in Launches
    /\ cmds' = Append(cmds, "pip_upgrade")
    /\ upgrade_outcome' = outcome
    /\ IF outcome = "ok"
       THEN /\ pc' = "install"
            /\ UNCHANGED <<exit_code, log>>
       ELSE IF outcome = "nonzero"
       THEN /\ pc' = "install"
            /\ log' = log \cup {"upgrade_failed"}
            /\ UNCHANGED exit_code
       ELSE Exit(1, {"traceback"})
    /\ UNCHANGED <<envVars, histVars, inputVars, walkVars, files, manifest,
                   writes, venv_name, venv_reused, shown, answer>>

\* install_requirements, up to the prompt: the manifest is read back and
\* its lines are printed.
install_requirements_list ==
    /\ pc = "install"
    /\ shown' = splitlines(manifest)
    /\ pc' = "confirm"
    /\ UNCHANGED <<envVars, histVars, inputVars, walkVars, files, manifest,
                   writes, venv_name, venv_reused, cmds, answer,
                   upgrade_outcome, log, exit_code>>

\* The test turned into user_input == 'no' for cancelling.
proceed_unless_no(user_input) == user_input # s_no

\* user_input = input(...).lower(); the test is user_input != 'yes'
proceed(user_input) == lower(user_input) = s_yes

\* install_requirements, from the answer on, and the end of main.
install_requirements_answer(typed, outcome) ==
    /\ pc = "confirm"
    /\ outcome \in Launches
    /\ answer' = typed
    /\ IF ~proceed(typed)
       THEN /\ outcome = "ok"
            /\ Exit(0, {"cancelled", "done"})
            /\ UNCHANGED <<cmds, files>>
       ELSE /\ cmds' = Append(cmds, "pip_install")
            /\ IF outcome = "ok"
               THEN /\ Exit(0, {"done"})
                    /\ files' = files \cup InstalledFiles(venv_name)
               ELSE /\ Exit(1, {"traceback"})
                    /\ UNCHANGED files
    /\ UNCHANGED <<envVars, histVars, inputVars, walkVars, manifest, writes,
                   venv_name, venv_reused, shown, upgrade_outcome>>

\* The program is started again on the directory as the last run left it.
Rerun ==
    /\ pc = "exited"
    /\ run < MaxRuns
    /\ run' = run + 1
    /\ pc' = "start"
    /\ manifest0' = manifest
    /\ project_dir' = None
    /\ rejected' = <<>>
    /\ visited' = {}
    /\ cur_files' = {}
    /\ all_imports' = {}
    /\ scanned' = {}
    /\ last_file' = <<>>
    /\ file_imports' = {}
    /\ file_raised' = FALSE
    /\ classified' = {}
    /\ writes' = 0
    /\ venv_name' = None
    /\ venv_reused' = FALSE
    /\ cmds' = <<>>
    /\ shown' = NotShown
    /\ answer' = None
    /\ upgrade_outcome' = "none"
    /\ log' = {}
    /\ exit_code' = -1
    /\ UNCHANGED <<envVars, files, manifest, scans>>

Next ==
    \/ \E input_dir \in ArgValues : ParseArgs(input_dir)
    \/ \E typed \in PromptInputs : get_directory_input(typed)
    \/ \E d \in Dirs : WalkRoot(d)
    \/ \E f \in files : WalkFile(f)
    \/ MainAfterScan
    \/ \E outcome \in Outcomes : create_or_use_venv(outcome)
    \/ \E outcome \in Outcomes : upgrade_pip(outcome)
    \/ install_requirements_list
    \/ \E typed \in Answers, outcome \in Outcomes :
          install_requirements_answer(typed, outcome)

\* One run of the program on a directory tree.
Spec == Init /\ [][Next]_vars

\* Repeated runs on a directory that holds no manifest yet, each on what
\* the run before left there, in an environment with packages installed.
InitRerun ==
    /\ Init
    /\ manifest = None
    /\ installed # {}

NextRerun == Next \/ Rerun

SpecRerun == InitRerun /\ [][NextRerun]_vars

\* ------------------------------------------------- the classifier alone
\* The module names classified: a standard-library one, a common external
\* one and two that are in neither set.
ClassifyModules == {s_os, s_numpy, s_requests, s_mylocal}

\* The installable name package_mapping.json gives a module, where it has one.
MappedName(module_name) ==
    CASE module_name = s_os -> s_os_sys
      [] module_name = s_numpy -> s_numpy
      [] module_name = s_requests -> s_PyYAML
      [] OTHER -> s_opencv_python

ClassifyMappings ==
    {[m \in K |-> MappedName(m)] : K \in SUBSET ClassifyModules}

InitClassify ==
    /\ pc = "classify"
    /\ run = 1
    /\ PACKAGE_MAPPING \in ClassifyMappings
    /\ installed \in SUBSET (ClassifyModules \cup {s_opencv_python})
    /\ files = {}
    /\ manifest = None
    /\ manifest0 = None
    /\ scans = <<>>
    /\ Idle

\* The two calls scan_imports makes for a module name.
Classify(module_name) ==
    /\ pc = "classify"
    /\ classified' = {classify(module_name)}
    /\ UNCHANGED <<pc, envVars, histVars, inputVars, provVars, files,
                   manifest, writes, log, exit_code, visited, cur_files,
                   all_imports, scanned, last_file, file_imports,
                   file_raised>>

NextClassify == \E module_name \in ClassifyModules : Classify(module_name)

SpecClassify == InitClassify /\ [][NextClassify]_vars


\* ======================================================== the properties
\* The .py files scan_directory hands to scan_imports in a walk of `fs`
\* from `top`.
Eligible(fs, top) ==
    {f \in fs : endswith(f.name, s_dot_py)
                /\ ~skip_root(RootPath(top, f.dir))}

\* scan_directory has returned and main has acted on its result; nothing
\* has touched the tree since.
ScanReturned ==
    \/ pc = "venv"
    \/ pc = "exited" /\ "no_imports" \in log

\* The components of the path scan_directory builds for a file.
PathComponents(f) ==
    Range(split(os_path_join(RootPath(project_dir, f.dir), f.name), Sep))

\* The nodes of a file that are not relative from-imports.
NonRelative(nodes) ==
    SelectSeq(nodes, LAMBDA n : ~(n.type = "ImportFrom" /\ n.level >= 1))

\* The dotted names a node that is not a relative from-import mentions.
DottedNames(node) ==
    IF node.type = "Import" THEN Range(node.names)
    ELSE IF node.type = "ImportFrom" /\ node.level = 0 /\ node.module # None
    THEN {node.module}
    ELSE {}

\* C1: every decision of the classifier follows the first-match order over
\* the four facts about the module name: in the standard-library set it is
\* not external; else a mapping key is external under the mapped name,
\* whatever is installed; else an installed name or a common external name
\* is external under its own name; else it is not external.
C1_FirstMatchOrder ==
    \A c \in classified :
        LET m == c.module
            in_stdlib == m \in stdlib_modules
            in_mapping == m \in DOMAIN PACKAGE_MAPPING
            is_installed == m \in installed
            is_common == m \in common_external
        IN  /\ c.external =
                (~in_stdlib /\ (in_mapping \/ is_installed \/ is_common))
            /\ c.external =>
                c.name = IF in_mapping THEN PACKAGE_MAPPING[m] ELSE m

\* A module that is a mapping key and installed under its own name, whose
\* mapped package is not installed, has been classified.
C1_Witness ==
    \E c \in classified :
        /\ c.module \in DOMAIN PACKAGE_MAPPING
        /\ c.module \in installed
        /\ PACKAGE_MAPPING[c.module] # c.module
        /\ PACKAGE_MAPPING[c.module] \notin installed
        /\ c.external
        /\ c.name = PACKAGE_MAPPING[c.module]

\* C2: scan_imports is never called on a file whose path has a component
\* equal to one of the environment-directory names '.venv', 'venv', 'myenv'.
C2_EnvDirsNeverScanned ==
    \A f \in scanned : PathComponents(f) \cap Range(venv_names) = {}

\* C3: a file that cannot be read, decoded or parsed contributes the empty
\* set and the walk goes on: when scan_directory returns, every .py file
\* it does not skip has been scanned and the set is the union of what the
\* nodes of the files that parsed contribute.
C3_FaultIsolation ==
    /\ (last_file # <<>> /\ ~parsed(last_file[1])) => file_imports = {}
    /\ ScanReturned =>
        /\ scanned = Eligible(files, project_dir)
        /\ all_imports =
             UNION {imports_of_nodes(f.nodes) :
                      f \in {g \in Eligible(files, project_dir) : parsed(g)}}

\* A walk has returned a non-empty set after scanning a file that failed,
\* whose text holds imports of external packages.
C3_Witness ==
    /\ pc = "venv"
    /\ \E f \in scanned :
          /\ ~parsed(f)
          /\ imports_of_nodes(f.nodes) # {}
          /\ ~(imports_of_nodes(f.nodes) \subseteq all_imports)
    /\ \E g \in scanned : parsed(g) /\ scan_imports(g) # {}

\* C4: the relative from-imports of a file add nothing to its import set
\* and raise nothing: the set is what the other nodes contribute, each
\* element the package name of the first dotted segment of a plain import
\* or of a level-0 from-import.
C4_RelativeImportsIgnored ==
    last_file # <<>> =>
        LET f == last_file[1]
        IN  /\ ~file_raised
            /\ file_imports =
                 IF parsed(f) THEN imports_of_nodes(NonRelative(f.nodes))
                 ELSE {}
            /\ \A p \in file_imports :
                 \E i \in DOMAIN f.nodes :
                    \E x \in DottedNames(f.nodes[i]) :
                        p = get_package_name(split(x, Dot)[1])

\* A file has been scanned that holds a relative from-import naming an
\* external package, and its import set lacks that package.
C4_Witness ==
    /\ last_file # <<>>
    /\ parsed(last_file[1])
    /\ \E i \in DOMAIN last_file[1].nodes :
          LET n == last_file[1].nodes[i]
          IN  /\ n.type = "ImportFrom"
              /\ n.level >= 1
              /\ n.module # None
              /\ is_external_package(FirstSegment(n.module))
              /\ get_package_name(FirstSegment(n.module)) \notin file_imports
    /\ \E i \in DOMAIN last_file[1].nodes :
          LET n == last_file[1].nodes[i]
          IN  n.type = "ImportFrom" /\ n.level >= 1 /\ n.module = None

\* C5: the written manifest has exactly one line per element of the final
\* Import Set, in strictly increasing code-point order, and nothing of the
\* file's previous content.
C5_ManifestLines ==
    writes = 1 =>
        LET lines == splitlines(manifest)
        IN  /\ Len(lines) = Cardinality(all_imports)
            /\ Range(lines) = all_imports
            /\ \A i \in 1..(Len(lines) - 1) : StrLess(lines[i], lines[i + 1])
            /\ manifest # <<>> /\ manifest[Len(manifest)] = 10

\* A manifest of several lines has replaced an older one, after two
\* scanned files contributed the same package.
C5_Witness ==
    /\ writes = 1
    /\ manifest0 = s_old_content
    /\ Cardinality(all_imports) >= 3
    /\ \E f \in scanned, g \in scanned :
          f # g /\ scan_imports(f) \cap scan_imports(g) # {}

\* C6: the manifest is a function of the tree, the mapping and the
\* registry: whatever order the walk took, it is the sorted union of what
\* the scanned files contribute, and two scans of the same tree wrote the
\* same manifest.
C6_OrderIndependent ==
    /\ pc = "venv" =>
         manifest =
           write_lines(sorted(
             UNION {scan_imports(f) : f \in Eligible(files, project_dir)}))
    /\ \A i \in DOMAIN scans, j \in DOMAIN scans :
         scans[i].files = scans[j].files =>
             scans[i].manifest = scans[j].manifest

\* Two runs have scanned the same tree of several contributing files.
C6_Witness ==
    /\ Len(scans) >= 2
    /\ scans[1].files = scans[2].files
    /\ pc = "venv"
    /\ \E f \in scanned, g \in scanned :
          /\ scan_imports(f) # {}
          /\ scan_imports(g) # {}
          /\ scan_imports(f) # scan_imports(g)

\* C7, as claimed: once a path that names no existing directory has been
\* supplied, by the flag or at the prompt, the program has reported it and
\* exited with a non-zero status without scanning a file.
C7_InvalidDirExits ==
    rejected # <<>> =>
        /\ pc = "exited"
        /\ exit_code > 0
        /\ "error_invalid_dir" \in log
        /\ scanned = {}

\* C7, amended: an invalid --input-dir is reported and ends the run with
\* status 1 before anything is scanned, written or run; an invalid path at
\* the prompt is reported and the prompt is repeated, nothing being scanned
\* until a path is accepted; a walk only ever runs on an existing directory.
C7_InvalidFlagExits ==
    /\ (rejected # <<>> /\ rejected[1].via = "flag") =>
          /\ pc = "exited"
          /\ exit_code = 1
          /\ "error_invalid_dir" \in log
          /\ scanned = {}
          /\ writes = 0
          /\ cmds = <<>>
    /\ (rejected # <<>> /\ rejected[1].via = "prompt") =>
          /\ "error_invalid_dir" \in log
          /\ pc = "prompt" => (exit_code = -1 /\ scanned = {})
    /\ pc \in {"start", "prompt"} => scanned = {}
    /\ pc \in {"walk", "venv", "upgrade", "install", "confirm"} =>
          isdir(project_dir)

\* An invalid --input-dir has ended the run.
C7_Witness ==
    /\ rejected # <<>>
    /\ rejected[1].via = "flag"
    /\ ~isdir(abspath(rejected[1].path))
    /\ pc = "exited"

\* C8, as claimed: no environment-tooling command is run before the list
\* has been shown and the answer 'yes' given.
C8_NoToolingBeforeYes ==
    cmds # <<>> => (shown # NotShown /\ answer = s_yes)

\* C8, amended: "pip install -r" is run only after the list of the
\* manifest's packages has been shown and an answer that lower-cases to
\* 'yes' given; the environment's creation and the pip upgrade are not
\* gated and have run by the time the list is shown.
C8_InstallGated ==
    /\ "pip_install" \in Range(cmds) =>
          /\ shown = sorted(all_imports)
          /\ answer # None
          /\ lower(answer) = s_yes
    /\ shown # NotShown =>
          /\ "pip_upgrade" \in Range(cmds)
          /\ venv_name # None

\* The installation has run on the answer 'YES'.
C8_Witness ==
    /\ "pip_install" \in Range(cmds)
    /\ answer = s_YES
    /\ cmds[1] = "venv_create"

\* C9: however the pip upgrade fails, the failure is logged and the run
\* goes on to install_requirements.
C9_UpgradeFailureNotFatal ==
    upgrade_outcome \in {"nonzero", "nolaunch"} =>
        /\ "upgrade_failed" \in log
        /\ pc \in {"install", "confirm"} \/ shown # NotShown

\* C10: with an empty Import Set the run exits with status 0 after the
\* early message, the manifest untouched and no environment step taken; the
\* manifest is written at most once, never during the walk, and every run
\* that goes past the walk has written it once for a non-empty set.
C10_EmptySetExitsEarly ==
    /\ (pc = "exited" /\ "no_imports" \in log) =>
          /\ exit_code = 0
          /\ all_imports = {}
          /\ writes = 0
          /\ manifest = manifest0
          /\ venv_name = None
          /\ cmds = <<>>
          /\ shown = NotShown
    /\ writes <= 1
    /\ pc \in {"start", "prompt", "walk"} =>
          (writes = 0 /\ manifest = manifest0)
    /\ (pc \in {"venv", "upgrade", "install", "confirm"}
           \/ venv_name # None \/ cmds # <<>>) =>
          (writes = 1 /\ all_imports # {})

\* A walk that scanned files and found nothing external has ended the run,
\* an older manifest being in place.
C10_Witness ==
    /\ pc = "exited"
    /\ "no_imports" \in log
    /\ scanned # {}
    /\ manifest0 = s_old_content
    /\ manifest = s_old_content

====
